---- MODULE Spec2Model ----
(***************************************************************************)
(* Model of src/src/azureaiagents/conversation_handler.py                  *)
(* (ConversationHandler): the reconciliation of a stream of partial agent  *)
(* events into an ordered list of chat messages.                           *)
(*                                                                         *)
(* Strings are sequences of tokens (a token stands for a run of            *)
(* characters); " " is the whitespace token.  A missing dictionary entry,  *)
(* a missing metadata field and Python's None are the values below.        *)
(***************************************************************************)
EXTENDS Integers, Sequences, FiniteSets, TLC

VARIABLES conversation, call_id_for_index, partial_calls_by_index,
          partial_calls_by_id, in_progress_tools,
          pc, endedBy, streamOpen, suspended, turn, budget, pulls, yields,
          postCalls, openCalls, history, lastEvent, repeated,
          sentArgs, sentName, idlessFirst, idSeen, lastDelta, textSent,
          lastCalls, focus, peer, tools, lookup, lastTitle

handlerVars == <<conversation, call_id_for_index, partial_calls_by_index,
                 partial_calls_by_id, in_progress_tools>>
driverVars  == <<pc, endedBy, streamOpen, suspended, turn, budget, pulls,
                 yields, postCalls, openCalls, history, lastEvent, repeated>>
ghostVars   == <<sentArgs, sentName, idlessFirst, idSeen, lastDelta,
                 textSent>>
instanceVars == <<focus, peer>>
registryVars == <<tools, lookup, lastTitle>>
otherVars   == <<instanceVars, registryVars>>
auxVars     == <<ghostVars, lastCalls, otherVars>>
vars        == <<handlerVars, driverVars, auxVars>>

----------------------------------------------------------------------------
(* Bounds *)
MaxTurns  == 2
MaxEvents == 3
MaxFrags  == 4
MaxPerInstance == 2

----------------------------------------------------------------------------
(* Values *)
None     == "none"          \* Python None / absent call id
NoIndex  == -1              \* tcall.get("index") of a fragment without index
NoText   == <<>>            \* the empty string, an absent metadata field
WS       == " "             \* a whitespace token

----------------------------------------------------------------------------
(* str.strip() *)
RECURSIVE LStrip(_)
LStrip(s) == IF s # <<>> /\ Head(s) = WS THEN LStrip(Tail(s)) ELSE s

RECURSIVE RStrip(_)
RStrip(s) ==
    IF s # <<>> /\ s[Len(s)] = WS THEN RStrip(SubSeq(s, 1, Len(s) - 1)) ELSE s

Strip(s) == RStrip(LStrip(s))

IsPrefix(s, t) == Len(s) <= Len(t) /\ SubSeq(t, 1, Len(s)) = s

----------------------------------------------------------------------------
(* MyChatMessage: role, content and the metadata fields title, status, id *)
MyChatMessage(role, content, title, status, id) ==
    [role |-> role, content |-> content, title |-> title,
     status |-> status, id |-> id]

PlainMessage(role, content) == MyChatMessage(role, content, NoText, None, NoText)

\* a variant of ToolId without the fixed id for a call that has no id
ToolIdOfAnything(c_id) == <<"tool", c_id>>

ToolId(c_id) == IF c_id # None THEN <<"tool", c_id>> ELSE <<"tool", "noid">>

(* extract_bing_query: re.search(r'q="([^"]+)"', url), else the whole url *)
QUOTE == "\""

RECURSIVE RunEnd(_, _)
\* last position of the maximal run of non-quote tokens starting at i
RunEnd(s, i) == IF i <= Len(s) /\ s[i] # QUOTE THEN RunEnd(s, i + 1) ELSE i - 1

BingMatchAt(s, i) ==
    /\ i + 3 <= Len(s)
    /\ s[i] = "q" /\ s[i + 1] = "=" /\ s[i + 2] = QUOTE
    /\ RunEnd(s, i + 3) >= i + 3
    /\ RunEnd(s, i + 3) < Len(s)

\* a variant of extract_bing_query that never looks for the q="..." field
ExtractWholeUrl(request_url) == request_url

extract_bing_query(request_url) ==
    LET hits == {i \in 1..Len(request_url) : BingMatchAt(request_url, i)}
    IN  IF hits = {} THEN request_url
        ELSE LET i == CHOOSE k \in hits : \A j \in hits : k <= j
             IN  SubSeq(request_url, i + 3, RunEnd(request_url, i + 3))

\* a variant of convert_dict_to_mychatmessage that drops the metadata
ConvertDropsMetadata(msg) ==
    [role |-> msg.role, content |-> msg.content, title |-> <<>>,
     status |-> "none", id |-> <<>>]

\* d.get(k, default) of a Python dict
Get(d, k, default) == IF k \in DOMAIN d THEN d[k] ELSE default

(* convert_dict_to_mychatmessage: a history record is a dict with the keys *)
(* role, content and, optionally, metadata (a dict with any of the keys    *)
(* title, status, id); msg.get("metadata", {}) becomes the metadata of the *)
(* message                                                                 *)
convert_dict_to_mychatmessage(msg) ==
    LET metadata == Get(msg, "metadata", <<>>)
    IN  MyChatMessage(msg.role, msg.content, Get(metadata, "title", NoText),
                      Get(metadata, "status", None), Get(metadata, "id", NoText))

----------------------------------------------------------------------------
(* self.function_titles and get_function_title *)
function_titles ==
    [n \in {<<"fetch_weather">>, <<"fetch_", "weather">>, <<"file_search">>,
            <<"bing_grounding">>}
       |-> IF n = <<"file_search">> THEN <<"searching docs">>
           ELSE IF n = <<"bing_grounding">> THEN <<"searching bing">>
           ELSE <<"fetching weather">>]

\* the character U+1F6E0 (hammer and wrench) that starts the generic label
TOOL_ICON == "hammer_and_wrench"

\* f"(icon) calling {name}"
GenericLabel(name) == <<TOOL_ICON, "calling">> \o name

get_function_title(fn_name) ==
    IF fn_name \in DOMAIN function_titles THEN function_titles[fn_name]
    ELSE GenericLabel(fn_name)

----------------------------------------------------------------------------
(* The handler's fields as one record, so that the handlers compose *)
Handler(conv, cidx, byIndex, byId, inprog) ==
    [conversation |-> conv, call_id_for_index |-> cidx,
     partial_calls_by_index |-> byIndex, partial_calls_by_id |-> byId,
     in_progress_tools |-> inprog]

Self == Handler(conversation, call_id_for_index, partial_calls_by_index,
                partial_calls_by_id, in_progress_tools)

EmptyMap == [x \in {} |-> None]

\* d[k] = v of a Python dict
Put(d, k, v) == [x \in DOMAIN d \cup {k} |-> IF x = k THEN v ELSE d[x]]
\* d.pop(k)
Drop(d, k) == [x \in DOMAIN d \ {k} |-> d[x]]

EmptyStorage == [name |-> <<>>, args |-> <<>>]

\* a variant of accumulate_args that keeps only the latest chunk
AccumulateArgsReplaces(storage, name_chunk, arg_chunk) ==
    [name |-> IF name_chunk # <<>> THEN storage.name \o name_chunk
              ELSE storage.name,
     args |-> IF arg_chunk # <<>> THEN arg_chunk ELSE storage.args]

(* accumulate_args *)
accumulate_args(storage, name_chunk, arg_chunk) ==
    [name |-> IF name_chunk # <<>> THEN storage.name \o name_chunk
              ELSE storage.name,
     args |-> IF arg_chunk # <<>> THEN storage.args \o arg_chunk
              ELSE storage.args]

(* finalize_tool_call.  in_progress_tools maps a call id to the position   *)
(* of its message object in self.conversation; position 0 is a message     *)
(* object that is not in the current list (it was created in an earlier    *)
(* turn, whose list stream_user_message has replaced).                     *)
SetContentTitle(conv, p, content, title) ==
    IF p = 0 THEN conv
    ELSE [conv EXCEPT ![p].content = content, ![p].title = title]

\* a variant of finalize_tool_call without the test of lines 133-134
FinalizeWithoutName(h, call_id) ==
    IF call_id \notin DOMAIN h.partial_calls_by_id THEN h
    ELSE LET data    == h.partial_calls_by_id[call_id]
             fn_name == Strip(data.name)
             fn_args == Strip(data.args)
         IN  IF call_id \notin DOMAIN h.in_progress_tools
             THEN LET msg_obj == MyChatMessage("assistant", fn_args,
                                     get_function_title(fn_name), "pending",
                                     <<"tool", call_id>>)
                  IN  [h EXCEPT
                         !.conversation = Append(h.conversation, msg_obj),
                         !.in_progress_tools =
                             Put(h.in_progress_tools, call_id,
                                 Len(h.conversation) + 1)]
             ELSE [h EXCEPT
                     !.conversation =
                         SetContentTitle(h.conversation,
                                         h.in_progress_tools[call_id],
                                         fn_args, get_function_title(fn_name))]

finalize_tool_call(h, call_id) ==
    IF call_id \notin DOMAIN h.partial_calls_by_id THEN h
    ELSE LET data    == h.partial_calls_by_id[call_id]
             fn_name == Strip(data.name)
             fn_args == Strip(data.args)
         IN  IF fn_name = <<>> THEN h
             ELSE IF call_id \notin DOMAIN h.in_progress_tools
             THEN LET msg_obj == MyChatMessage("assistant", fn_args,
                                     get_function_title(fn_name), "pending",
                                     <<"tool", call_id>>)
                  IN  [h EXCEPT
                         !.conversation = Append(h.conversation, msg_obj),
                         !.in_progress_tools =
                             Put(h.in_progress_tools, call_id,
                                 Len(h.conversation) + 1)]
             ELSE [h EXCEPT
                     !.conversation =
                         SetContentTitle(h.conversation,
                                         h.in_progress_tools[call_id],
                                         fn_args, get_function_title(fn_name))]

\* a variant of StoreCallId that files every call id under index 0
StoreCallIdAtZero(cidx, index, new_call_id) ==
    IF new_call_id # None THEN Put(cidx, 0, new_call_id) ELSE cidx

\* a variant of StoreCallId that keeps the first call id of an index
StoreCallIdOnce(cidx, index, new_call_id) ==
    IF new_call_id # None /\ index \notin DOMAIN cidx
    THEN Put(cidx, index, new_call_id) ELSE cidx

(* upsert_tool_call, lines 215-217: store a new call id for the index *)
StoreCallId(cidx, index, new_call_id) ==
    IF new_call_id # None THEN Put(cidx, index, new_call_id) ELSE cidx

\* a variant of MergePartial that loses the index-keyed partial data
MergePartialDropsBuffer(byId, byIndex, index, final_call_id) == byId

(* upsert_tool_call, lines 233-237: merge the index-keyed partial data *)
MergePartial(byId, byIndex, index, final_call_id) ==
    IF index \in DOMAIN byIndex
    THEN [byId EXCEPT ![final_call_id] =
             [name |-> @.name \o byIndex[index].name,
              args |-> @.args \o byIndex[index].args]]
    ELSE byId

(* upsert_tool_call, lines 208-243: partial function calls *)
UpsertFunction(h, tcall) ==
    LET index       == tcall.index
        cidx        == StoreCallId(h.call_id_for_index, index, tcall.id)
        h1          == [h EXCEPT !.call_id_for_index = cidx]
    IN  IF index \notin DOMAIN cidx
        THEN LET old == IF index \in DOMAIN h.partial_calls_by_index
                        THEN h.partial_calls_by_index[index] ELSE EmptyStorage
             IN  [h1 EXCEPT !.partial_calls_by_index =
                     Put(h.partial_calls_by_index, index,
                         accumulate_args(old, tcall.name, tcall.args))]
        ELSE LET final_call_id == cidx[index]
                 byId0 == IF final_call_id \in DOMAIN h.partial_calls_by_id
                          THEN h.partial_calls_by_id
                          ELSE Put(h.partial_calls_by_id, final_call_id,
                                   EmptyStorage)
                 byId1 == MergePartial(byId0, h.partial_calls_by_index, index,
                                       final_call_id)
                 byId2 == [byId1 EXCEPT ![final_call_id] =
                              accumulate_args(@, tcall.name, tcall.args)]
                 h2    == [h1 EXCEPT
                             !.partial_calls_by_id = byId2,
                             !.partial_calls_by_index =
                                 Drop(h.partial_calls_by_index, index)]
             IN  finalize_tool_call(h2, final_call_id)

(* upsert_tool_call, lines 165-202: a single-shot message is appended and, *)
(* when the call has an id, registered in in_progress_tools                *)
AppendToolMessage(h, c_id, content, kind) ==
    [h EXCEPT
       !.conversation =
           Append(h.conversation,
                  MyChatMessage("assistant", content,
                                get_function_title(<<kind>>), "pending",
                                ToolId(c_id))),
       !.in_progress_tools =
           IF c_id # None
           THEN Put(h.in_progress_tools, c_id, Len(h.conversation) + 1)
           ELSE h.in_progress_tools]

(* upsert_tool_call *)
upsert_tool_call(h, tcall) ==
    IF tcall.type = "bing_grounding"
    THEN IF Strip(tcall.requesturl) = <<>> THEN h
         ELSE IF Strip(extract_bing_query(tcall.requesturl)) = <<>> THEN h
         ELSE AppendToolMessage(h, tcall.id,
                                extract_bing_query(tcall.requesturl),
                                "bing_grounding")
    ELSE IF tcall.type = "file_search"
    THEN AppendToolMessage(h, tcall.id, <<"searching docs...">>, "file_search")
    ELSE IF tcall.type # "function" THEN h
    ELSE UpsertFunction(h, tcall)

(* for tcall in ...tool_calls: self.upsert_tool_call(tcall) *)
RECURSIVE UpsertAll(_, _)
UpsertAll(h, tcalls) ==
    IF tcalls = <<>> THEN h
    ELSE UpsertAll(upsert_tool_call(h, Head(tcalls)), Tail(tcalls))

(* lines 331-336 (also 405-410 and 415-420): every message of             *)
(* in_progress_tools gets status done, then the four maps are cleared      *)
MarkDoneToggles(conv, inprog) ==
    [p \in 1..Len(conv) |->
        IF conv[p].status = "pending" THEN [conv[p] EXCEPT !.status = "done"]
        ELSE IF conv[p].status = "done"
        THEN [conv[p] EXCEPT !.status = "pending"]
        ELSE conv[p]]

MarkDone(conv, inprog) ==
    [p \in 1..Len(conv) |->
        IF \E c \in DOMAIN inprog : inprog[c] = p
        THEN [conv[p] EXCEPT !.status = "done"] ELSE conv[p]]

\* a variant of FinishTools that takes the pending messages off the list
FinishToolsDropsMessages(h) ==
    Handler(SelectSeq(h.conversation,
                      LAMBDA m : m.status # "pending"),
            EmptyMap, EmptyMap, EmptyMap, EmptyMap)

FinishTools(h) ==
    Handler(MarkDone(h.conversation, h.in_progress_tools),
            EmptyMap, EmptyMap, EmptyMap, EmptyMap)


(* lines 358-397: partial assistant text *)
RECURSIVE JoinText(_)
\* agent_msg: the concatenation of the chunks' text values
JoinText(chunks) ==
    IF chunks = <<>> THEN <<>> ELSE Head(chunks) \o JoinText(Tail(chunks))

HasMetadata(m) == m.title # NoText \/ m.status # None \/ m.id # NoText

IsToolId(id) == id # NoText /\ id[1] = "tool"

\* a variant of ApplyTextDelta without the role test of line 383
ApplyTextDeltaIntoAnyTail(conv, message_id, agent_msg) ==
    LET matching == {p \in 1..Len(conv) :
                        /\ HasMetadata(conv[p])
                        /\ conv[p].id = message_id
                        /\ conv[p].role = "assistant"}
    IN  IF matching # {}
        THEN LET p == CHOOSE q \in matching : \A r \in matching : r <= q
             IN  [conv EXCEPT ![p].content = @ \o agent_msg]
        ELSE IF \/ conv = <<>>
                \/ /\ HasMetadata(conv[Len(conv)])
                   /\ IsToolId(conv[Len(conv)].id)
        THEN Append(conv, PlainMessage("assistant", agent_msg))
        ELSE [conv EXCEPT ![Len(conv)].content = @ \o agent_msg]

\* a variant of ApplyTextDelta without the tool- test of lines 384-389
ApplyTextDeltaIntoToolTail(conv, message_id, agent_msg) ==
    LET matching == {p \in 1..Len(conv) :
                        /\ HasMetadata(conv[p])
                        /\ conv[p].id = message_id
                        /\ conv[p].role = "assistant"}
    IN  IF matching # {}
        THEN LET p == CHOOSE q \in matching : \A r \in matching : r <= q
             IN  [conv EXCEPT ![p].content = @ \o agent_msg]
        ELSE IF conv = <<>> \/ conv[Len(conv)].role # "assistant"
        THEN Append(conv, PlainMessage("assistant", agent_msg))
        ELSE [conv EXCEPT ![Len(conv)].content = @ \o agent_msg]

ApplyTextDelta(conv, message_id, agent_msg) ==
    LET matching == {p \in 1..Len(conv) :
                        /\ HasMetadata(conv[p])
                        /\ conv[p].id = message_id
                        /\ conv[p].role = "assistant"}
    IN  IF matching # {}
        THEN LET p == CHOOSE q \in matching : \A r \in matching : r <= q
             IN  [conv EXCEPT ![p].content = @ \o agent_msg]
        ELSE IF \/ conv = <<>>
                \/ conv[Len(conv)].role # "assistant"
                \/ /\ HasMetadata(conv[Len(conv)])
                   /\ IsToolId(conv[Len(conv)].id)
        THEN Append(conv, PlainMessage("assistant", agent_msg))
        ELSE [conv EXCEPT ![Len(conv)].content = @ \o agent_msg]

(* lines 264-273: the seeded conversation *)
RECURSIVE ConvertAll(_)
ConvertAll(hist) ==
    IF hist = <<>> THEN <<>>
    ELSE <<convert_dict_to_mychatmessage(Head(hist))>> \o ConvertAll(Tail(hist))

\* a variant of SeedConversation without the reset of line 267
SeedConversationKeepsOld(old, hist, user_message) ==
    Append(old \o ConvertAll(hist), PlainMessage("user", user_message))

\* old is self.conversation of the previous turn, which line 267 discards
SeedConversation(old, hist, user_message) ==
    Append(ConvertAll(hist), PlainMessage("user", user_message))

----------------------------------------------------------------------------
\* the positional indexes of the function calls of a step
CallIndexes == {0, 1}

\* the upstream ids of the assistant messages of a run
MessageIds == {<<"msg", "m1">>, <<"msg", "m2">>}

(* The fields and the generator position of the handler instance in focus *)
Instance ==
    [conversation |-> conversation,
     call_id_for_index |-> call_id_for_index,
     partial_calls_by_index |-> partial_calls_by_index,
     partial_calls_by_id |-> partial_calls_by_id,
     in_progress_tools |-> in_progress_tools,
     pc |-> pc, endedBy |-> endedBy, streamOpen |-> streamOpen,
     suspended |-> suspended, turn |-> turn, budget |-> budget,
     pulls |-> pulls, yields |-> yields, postCalls |-> postCalls,
     openCalls |-> openCalls, history |-> history, lastEvent |-> lastEvent,
     repeated |-> repeated]

\* the tool types of the registry and the result of no lookup yet
Kinds == {<<"bing_grounding">>, <<"fabric_data">>, <<"azure_ai_search">>}
NoLookup == [kind |-> NoText, title |-> NoText]

(* State after ConversationHandler.__init__ (lines 84-105); no generator   *)
(* has been started.  events is the number of events the streams of the    *)
(* handler's turns deliver at most.  A second handler, peer, has been      *)
(* constructed in the same way, and a ToolRegistry without tools.          *)
InitHandler(events) ==
    /\ conversation = <<>>
    /\ call_id_for_index = EmptyMap
    /\ partial_calls_by_index = EmptyMap
    /\ partial_calls_by_id = EmptyMap
    /\ in_progress_tools = EmptyMap
    /\ pc = "idle"
    /\ endedBy = "none"
    /\ streamOpen = FALSE
    /\ suspended = FALSE
    /\ turn = 0
    /\ budget = events
    /\ pulls = 0
    /\ yields = 0
    /\ postCalls = 0
    /\ openCalls = 0
    /\ history = <<>>
    /\ lastEvent = "none"
    /\ repeated = FALSE
    /\ sentArgs = [i \in CallIndexes |-> <<>>]
    /\ sentName = [i \in CallIndexes |-> <<>>]
    /\ idlessFirst = [i \in CallIndexes |-> 0]
    /\ idSeen = [i \in CallIndexes |-> FALSE]
    /\ lastDelta = [id |-> NoText, text |-> <<>>]
    /\ textSent = [m \in MessageIds |-> <<>>]
    /\ lastCalls = <<>>
    /\ focus = 1
    /\ peer = Instance
    /\ tools = EmptyMap
    /\ lookup = NoLookup
    /\ lastTitle = [k \in Kinds |-> NoText]

Init == InitHandler(MaxEvents)

SetHandler(h) ==
    /\ conversation' = h.conversation
    /\ call_id_for_index' = h.call_id_for_index
    /\ partial_calls_by_index' = h.partial_calls_by_index
    /\ partial_calls_by_id' = h.partial_calls_by_id
    /\ in_progress_tools' = h.in_progress_tools

\* a variant of Start that calls create_message before the first yield
StartPostsFirst(hist, user_message) ==
    /\ pc \in {"idle", "finalized", "aborted", "cancelled"}
    /\ turn < MaxTurns
    /\ conversation' = SeedConversation(conversation, hist, user_message)
    /\ in_progress_tools' = [c \in DOMAIN in_progress_tools |-> 0]
    /\ UNCHANGED <<call_id_for_index, partial_calls_by_index,
                   partial_calls_by_id>>
    /\ history' = hist
    /\ pc' = "posted"
    /\ endedBy' = "none"
    /\ suspended' = TRUE
    /\ turn' = turn + 1
    /\ pulls' = 0
    /\ yields' = 1
    /\ postCalls' = 1
    /\ openCalls' = 0
    /\ lastEvent' = "none"
    /\ repeated' = FALSE
    /\ UNCHANGED <<streamOpen, budget>>

(* stream_user_message up to the first yield (lines 264-276).  The message *)
(* objects of the previous list are no longer in self.conversation: the    *)
(* entries of in_progress_tools keep pointing at them (position 0).        *)
Start(hist, user_message) ==
    /\ pc \in {"idle", "finalized", "aborted", "cancelled"}
    /\ turn < MaxTurns
    /\ conversation' = SeedConversation(conversation, hist, user_message)
    /\ in_progress_tools' = [c \in DOMAIN in_progress_tools |-> 0]
    /\ UNCHANGED <<call_id_for_index, partial_calls_by_index,
                   partial_calls_by_id>>
    /\ history' = hist
    /\ pc' = "seeded"
    /\ endedBy' = "none"
    /\ suspended' = TRUE
    /\ turn' = turn + 1
    /\ pulls' = 0
    /\ yields' = 1
    /\ postCalls' = 0
    /\ openCalls' = 0
    /\ lastEvent' = "none"
    /\ repeated' = FALSE
    /\ UNCHANGED <<streamOpen, budget>>

\* a variant of Post that can be taken again after a failure
PostRetries(ok) ==
    /\ pc = "seeded"
    /\ postCalls' = postCalls + 1
    /\ suspended' = FALSE
    /\ IF ok THEN pc' = "posted" ELSE pc' = "seeded"
    /\ UNCHANGED <<handlerVars, endedBy, streamOpen, turn, budget, pulls,
                   yields, openCalls, history, lastEvent, repeated>>

(* lines 283-289: create_message *)
Post(ok) ==
    /\ pc = "seeded"
    /\ postCalls' = postCalls + 1
    /\ suspended' = FALSE
    /\ IF ok THEN pc' = "posted" /\ UNCHANGED endedBy
       ELSE pc' = "aborted" /\ endedBy' = "post_error"
    /\ UNCHANGED <<handlerVars, streamOpen, turn, budget, pulls, yields,
                   openCalls, history, lastEvent, repeated>>

(* lines 294-299 and 424-426: create_stream *)
Open(ok) ==
    /\ pc = "posted"
    /\ openCalls' = openCalls + 1
    /\ IF ok THEN pc' = "streaming" /\ streamOpen' = TRUE /\ UNCHANGED endedBy
       ELSE pc' = "aborted" /\ endedBy' = "open_error" /\ UNCHANGED streamOpen
    /\ UNCHANGED <<handlerVars, suspended, turn, budget, pulls, yields,
                   postCalls, history, lastEvent, repeated>>

(* One iteration of "for item in stream" (lines 300-422): the event is     *)
(* pulled, the handler state becomes h, and the generator yields or not.   *)
Handle(tag, h, yielded) ==
    /\ pc = "streaming"
    /\ budget > 0
    /\ SetHandler(h)
    /\ budget' = budget - 1
    /\ pulls' = pulls + 1
    /\ yields' = IF yielded THEN yields + 1 ELSE yields
    /\ suspended' = yielded
    /\ repeated' = (lastEvent = tag)
    /\ lastEvent' = tag
    /\ UNCHANGED <<endedBy, streamOpen, turn, postCalls, openCalls, history>>

FragTag(tcalls) ==
    IF \E i \in 1..Len(tcalls) :
          tcalls[i].type = "function" /\ tcalls[i].index = NoIndex
    THEN "calls_noindex" ELSE "calls"

(* lines 311-316: thread.run.step.delta with tool_calls step details *)
StepDelta(tcalls) ==
    /\ Handle(FragTag(tcalls), UpsertAll(Self, tcalls), TRUE)
    /\ pc' = pc

(* lines 323-328: run_step, tool_calls in_progress *)
ToolCallsInProgress(tcalls) ==
    /\ Handle(FragTag(tcalls), UpsertAll(Self, tcalls), TRUE)
    /\ pc' = pc

(* lines 330-337: run_step, tool_calls completed *)
ToolCallsCompleted ==
    /\ Handle("tool_calls_completed", FinishTools(Self), TRUE)
    /\ pc' = pc

CreationTag(msg_id) ==
    IF msg_id # None THEN "message_creation_in_progress"
    ELSE "message_creation_in_progress_noid"

\* a variant of MessageCreationInProgress without the test of line 346
MessageCreationInProgressAlways(msg_id) ==
    /\ Handle(CreationTag(msg_id),
              [Self EXCEPT !.conversation =
                   Append(@, PlainMessage("assistant", <<>>))],
              TRUE)
    /\ pc' = pc

\* a variant of MessageCreationInProgress that appends no message
MessageCreationInProgressYieldsOnly(msg_id) ==
    /\ Handle(CreationTag(msg_id), Self, TRUE)
    /\ pc' = pc

(* lines 339-350: run_step, message_creation in_progress *)
MessageCreationInProgress(msg_id) ==
    /\ Handle(CreationTag(msg_id),
              [Self EXCEPT !.conversation =
                   IF msg_id # None
                   THEN Append(@, PlainMessage("assistant", <<>>)) ELSE @],
              TRUE)
    /\ pc' = pc

(* lines 352-356: run_step, message_creation completed *)
MessageCreationCompleted ==
    /\ Handle("message_creation_completed", Self, TRUE)
    /\ pc' = pc

(* lines 359-397: thread.message.delta *)
MessageDelta(message_id, chunks) ==
    /\ Handle("message_delta",
              [Self EXCEPT !.conversation =
                   ApplyTextDelta(@, message_id, JoinText(chunks))],
              TRUE)
    /\ pc' = pc

\* a variant of ThreadMessage that yields for every thread.message event
ThreadMessageAlwaysYields(role, status) ==
    /\ IF role = "assistant" /\ status = "completed"
       THEN Handle("thread_message_completed", FinishTools(Self), TRUE)
       ELSE Handle("thread_message_other", Self, TRUE)
    /\ pc' = pc

(* lines 400-411: thread.message; only a completed assistant message      *)
(* finalizes and yields, and the loop goes on                               *)
ThreadMessage(role, status) ==
    /\ IF role = "assistant" /\ status = "completed"
       THEN Handle("thread_message_completed", FinishTools(Self), TRUE)
       ELSE Handle("thread_message_other", Self, FALSE)
    /\ pc' = pc

\* a variant of ThreadMessageCompleted without the break of line 422
ThreadMessageCompletedGoesOn ==
    /\ Handle("message_completed", FinishTools(Self), TRUE)
    /\ pc' = pc

(* lines 414-422: thread.message.completed: finalize, yield, break *)
ThreadMessageCompleted ==
    /\ Handle("message_completed", FinishTools(Self), TRUE)
    /\ pc' = "final_yield"

\* a variant of OtherEvent that falls into a completion branch
OtherEventFinishes ==
    /\ Handle("other", FinishTools(Self), TRUE)
    /\ pc' = pc

(* any other event type, a run_step of another type or status, a step     *)
(* delta whose details are not tool_calls: no branch is taken              *)
OtherEvent ==
    /\ Handle("other", Self, FALSE)
    /\ pc' = pc

(* the loop is left by break and the generator returns (line 429) *)
ReturnAfterBreak ==
    /\ pc = "final_yield"
    /\ pc' = "finalized"
    /\ endedBy' = "terminal"
    /\ streamOpen' = FALSE
    /\ suspended' = FALSE
    /\ UNCHANGED <<handlerVars, turn, budget, pulls, yields, postCalls,
                   openCalls, history, lastEvent, repeated>>

(* the stream is exhausted: the for loop ends, the with block closes the   *)
(* stream, line 429 returns                                                *)
StreamExhausted ==
    /\ pc = "streaming"
    /\ pc' = "finalized"
    /\ endedBy' = "exhausted"
    /\ streamOpen' = FALSE
    /\ suspended' = FALSE
    /\ UNCHANGED <<handlerVars, turn, budget, pulls, yields, postCalls,
                   openCalls, history, lastEvent, repeated>>

\* a variant of StreamError in which the stream is not closed on the way out
StreamErrorLeavesOpen ==
    /\ pc = "streaming"
    /\ pc' = "aborted"
    /\ endedBy' = "read_error"
    /\ suspended' = FALSE
    /\ UNCHANGED <<handlerVars, streamOpen, turn, budget, pulls, yields,
                   postCalls, openCalls, history, lastEvent, repeated>>

(* reading the stream raises HttpResponseError (lines 424-426) *)
StreamError ==
    /\ pc = "streaming"
    /\ pc' = "aborted"
    /\ endedBy' = "read_error"
    /\ streamOpen' = FALSE
    /\ suspended' = FALSE
    /\ UNCHANGED <<handlerVars, turn, budget, pulls, yields, postCalls,
                   openCalls, history, lastEvent, repeated>>

(* the caller closes the suspended generator: GeneratorExit is raised at   *)
(* the yield and the with block, if entered, closes the stream             *)
Cancel ==
    /\ pc \in {"seeded", "streaming", "final_yield"}
    /\ suspended
    /\ pc' = "cancelled"
    /\ endedBy' = "cancelled"
    /\ streamOpen' = FALSE
    /\ suspended' = FALSE
    /\ UNCHANGED <<handlerVars, turn, budget, pulls, yields, postCalls,
                   openCalls, history, lastEvent, repeated>>

----------------------------------------------------------------------------
(* The events of a turn *)
FunctionCall(index, id, name, args) ==
    [type |-> "function", id |-> id, index |-> index, name |-> name,
     args |-> args, requesturl |-> <<>>]

BingCall(id, requesturl) ==
    [type |-> "bing_grounding", id |-> id, index |-> NoIndex, name |-> <<>>,
     args |-> <<>>, requesturl |-> requesturl]

FileSearchCall(id) ==
    [type |-> "file_search", id |-> id, index |-> NoIndex, name |-> <<>>,
     args |-> <<>>, requesturl |-> <<>>]

CodeInterpreterCall ==
    [type |-> "code_interpreter", id |-> "k1", index |-> 0, name |-> <<>>,
     args |-> <<>>, requesturl |-> <<>>]

BingUrl == <<"q", "=", QUOTE, "paris", WS, "weather", QUOTE>>

TurnCalls ==
    {FunctionCall(0, None, <<"f">>, <<"a">>),
     FunctionCall(0, "c1", <<>>, <<"a">>),
     FunctionCall(0, "c1", <<"f">>, <<WS>>),
     FunctionCall(NoIndex, "c1", <<"f">>, <<"a">>),
     BingCall("b1", BingUrl), BingCall(None, <<WS>>),
     FileSearchCall("s1"), FileSearchCall(None),
     CodeInterpreterCall}

\* the tool_calls lists of one event
TurnCallLists ==
    {<<>>} \cup {<<t>> : t \in TurnCalls}

TextChunks == {<<"x">>}
UserText   == <<"hi">>

\* the dict a caller makes of a message of a snapshot: the metadata dict
\* has the keys the message has, and a message without metadata gives a
\* dict without the metadata key
MetadataKeys(m) ==
    {k \in {"title", "status", "id"} :
        m[k] # (IF k = "status" THEN None ELSE NoText)}

AsDict(m) ==
    IF MetadataKeys(m) = {}
    THEN [role |-> m.role, content |-> m.content]
    ELSE [role |-> m.role, content |-> m.content,
          metadata |-> [k \in MetadataKeys(m) |-> m[k]]]

AsDicts(snapshot) == [p \in 1..Len(snapshot) |-> AsDict(snapshot[p])]

\* the caller passes no history or the last snapshot it was given
Histories == {<<>>, AsDicts(conversation)}

TurnStart == \E h \in Histories : Start(h, UserText) /\ UNCHANGED auxVars
TurnPost == \E ok \in BOOLEAN : Post(ok) /\ UNCHANGED auxVars
TurnOpen == \E ok \in BOOLEAN : Open(ok) /\ UNCHANGED auxVars
TurnStepDelta ==
    \E tcalls \in TurnCallLists : StepDelta(tcalls) /\ UNCHANGED auxVars
TurnToolCallsInProgress ==
    \E tcalls \in TurnCallLists :
        ToolCallsInProgress(tcalls) /\ UNCHANGED auxVars
TurnToolCallsCompleted == ToolCallsCompleted /\ UNCHANGED auxVars
TurnMessageCreationInProgress ==
    \E m \in {None, "m1"} : MessageCreationInProgress(m) /\ UNCHANGED auxVars
TurnMessageCreationCompleted == MessageCreationCompleted /\ UNCHANGED auxVars
TurnMessageDelta ==
    \E m \in MessageIds, t \in TextChunks :
        MessageDelta(m, <<t>>) /\ UNCHANGED auxVars
TurnThreadMessage ==
    \E r \in {"assistant", "user"}, st \in {"completed", "in_progress"} :
        ThreadMessage(r, st) /\ UNCHANGED auxVars
TurnThreadMessageCompleted == ThreadMessageCompleted /\ UNCHANGED auxVars
TurnOtherEvent == OtherEvent /\ UNCHANGED auxVars
TurnReturnAfterBreak == ReturnAfterBreak /\ UNCHANGED auxVars
TurnStreamExhausted == StreamExhausted /\ UNCHANGED auxVars
TurnStreamError == StreamError /\ UNCHANGED auxVars
TurnCancel == Cancel /\ UNCHANGED auxVars

Next ==
    \/ TurnStart
    \/ TurnPost
    \/ TurnOpen
    \/ TurnStepDelta
    \/ TurnToolCallsInProgress
    \/ TurnToolCallsCompleted
    \/ TurnMessageCreationInProgress
    \/ TurnMessageCreationCompleted
    \/ TurnMessageDelta
    \/ TurnThreadMessage
    \/ TurnThreadMessageCompleted
    \/ TurnOtherEvent
    \/ TurnReturnAfterBreak
    \/ TurnStreamExhausted
    \/ TurnStreamError
    \/ TurnCancel

Spec == Init /\ [][Next]_vars

----------------------------------------------------------------------------
(* The accumulation of function-call fragments: one turn on a new handler, *)
(* whose stream delivers the fragments of two function calls in flight,    *)
(* call c1 on index 0 and call c2 on index 1, in any interleaving.  The    *)
(* tokens of a fragment tell its call: a and fetch_weather are of c1, b    *)
(* and g of c2.                                                            *)
CallIdOf   == [i \in CallIndexes |-> IF i = 0 THEN "c1" ELSE "c2"]
ArgTokenOf == [i \in CallIndexes |-> IF i = 0 THEN "a" ELSE "b"]
NameTokenOf == [i \in CallIndexes |-> IF i = 0 THEN "fetch_weather" ELSE "g"]

FragmentsOf(i) ==
    {FunctionCall(i, c, n, a) :
        c \in {None, CallIdOf[i]},
        n \in {<<>>, <<NameTokenOf[i]>>},
        a \in {<<>>, <<ArgTokenOf[i]>>, <<WS>>}}

AccumCallLists ==
    {<<t>> : t \in FragmentsOf(0) \cup FragmentsOf(1)}
    \cup {<<FunctionCall(0, c, <<"fetch_weather">>, <<"a">>),
            FunctionCall(1, d, <<"g">>, <<"b">>)>> :
            c \in {None, "c1"}, d \in {None, "c2"}}

\* what the stream has sent so far on each index
Sent == [args |-> sentArgs, name |-> sentName, idless |-> idlessFirst,
         seen |-> idSeen]

RECURSIVE TrackAll(_, _)
TrackAll(g, tcalls) ==
    IF tcalls = <<>> THEN g
    ELSE LET t == Head(tcalls)
             i == t.index
         IN  TrackAll(
                 [args   |-> [g.args EXCEPT ![i] = @ \o t.args],
                  name   |-> [g.name EXCEPT ![i] = @ \o t.name],
                  idless |-> [g.idless EXCEPT ![i] =
                                 IF t.id = None /\ ~g.seen[i] THEN @ + 1 ELSE @],
                  seen   |-> [g.seen EXCEPT ![i] = @ \/ t.id # None]],
                 Tail(tcalls))

Track(tcalls) ==
    LET g == TrackAll(Sent, tcalls)
    IN  /\ sentArgs' = g.args
        /\ sentName' = g.name
        /\ idlessFirst' = g.idless
        /\ idSeen' = g.seen
        /\ UNCHANGED <<lastDelta, textSent, lastCalls, otherVars>>

InitAccum == InitHandler(MaxFrags)

AccumStart == turn = 0 /\ Start(<<>>, UserText) /\ UNCHANGED auxVars
AccumPost == Post(TRUE) /\ UNCHANGED auxVars
AccumOpen == Open(TRUE) /\ UNCHANGED auxVars
AccumStepDelta ==
    \E tcalls \in AccumCallLists : StepDelta(tcalls) /\ Track(tcalls)
AccumToolCallsInProgress ==
    \E tcalls \in AccumCallLists : ToolCallsInProgress(tcalls) /\ Track(tcalls)

NextAccum ==
    \/ AccumStart
    \/ AccumPost
    \/ AccumOpen
    \/ AccumStepDelta
    \/ AccumToolCallsInProgress

SpecAccum == InitAccum /\ [][NextAccum]_vars

----------------------------------------------------------------------------
(* The assistant text of a turn: one turn on a new handler whose history   *)
(* may hold assistant messages that carry an upstream message id, and      *)
(* whose stream delivers text deltas of two messages between tool-call     *)
(* fragments and run-step transitions.  The tokens of a chunk tell its     *)
(* message: x is of m1, y of m2; h is the text of a history message.       *)
TextTokenOf(m) == IF m = <<"msg", "m1">> THEN "x" ELSE "y"

\* the content lists of a delta: no chunk, one chunk, two chunks
ChunkLists(m) ==
    {<<>>, <<<<TextTokenOf(m)>>>>, <<<<TextTokenOf(m)>>, <<TextTokenOf(m)>>>>}

Bubble(role, m) ==
    [role |-> role, content |-> <<"h">>, metadata |-> [id |-> m]]

TextHistories ==
    {<<>>,
     <<[role |-> "assistant", content |-> <<"h">>]>>,
     <<Bubble("assistant", <<"msg", "m1">>)>>,
     <<Bubble("user", <<"msg", "m1">>)>>,
     <<Bubble("assistant", <<"msg", "m1">>), Bubble("assistant", <<"msg", "m1">>)>>,
     <<Bubble("assistant", <<"msg", "m1">>), Bubble("assistant", <<"msg", "m2">>)>>}

TextCallLists ==
    {<<FileSearchCall("s1")>>, <<FunctionCall(0, "c1", <<"f">>, <<"a">>)>>}

TrackText(m, chunks) ==
    /\ lastDelta' = [id |-> m, text |-> JoinText(chunks)]
    /\ textSent' = [textSent EXCEPT ![m] = @ \o JoinText(chunks)]
    /\ UNCHANGED <<sentArgs, sentName, idlessFirst, idSeen, lastCalls,
                   otherVars>>

InitText == InitHandler(MaxEvents)

TextStart ==
    \E h \in TextHistories :
        turn = 0 /\ Start(h, UserText) /\ UNCHANGED auxVars
TextPost == Post(TRUE) /\ UNCHANGED auxVars
TextOpen == Open(TRUE) /\ UNCHANGED auxVars
TextStepDelta ==
    \E tcalls \in TextCallLists : StepDelta(tcalls) /\ UNCHANGED auxVars
TextToolCallsCompleted == ToolCallsCompleted /\ UNCHANGED auxVars
TextMessageCreationInProgress ==
    \E m \in {None, "m1"} : MessageCreationInProgress(m) /\ UNCHANGED auxVars
TextMessageDelta ==
    \E m \in MessageIds : \E chunks \in ChunkLists(m) :
        MessageDelta(m, chunks) /\ TrackText(m, chunks)

NextText ==
    \/ TextStart
    \/ TextPost
    \/ TextOpen
    \/ TextStepDelta
    \/ TextToolCallsCompleted
    \/ TextMessageCreationInProgress
    \/ TextMessageDelta

SpecText == InitText /\ [][NextText]_vars

----------------------------------------------------------------------------
(* The tool calls of a turn: one turn on a new handler whose stream        *)
(* delivers, one call per event, function fragments that carry no id, c1   *)
(* or c2 on index 0 or 1, bing_grounding calls with several request        *)
(* descriptors, file_search calls, and the completion of the tool calls.   *)
BingUrls ==
    {<<>>, <<WS>>, BingUrl, <<"u">>, <<"q", "=", QUOTE, WS, QUOTE>>}

ToolCalls ==
    {FunctionCall(i, c, n, <<"a">>) :
        i \in CallIndexes, c \in {None, "c1", "c2"}, n \in {<<>>, <<"f">>}}
    \cup {BingCall(c, u) : c \in {None, "b1"}, u \in BingUrls}
    \cup {FileSearchCall(None), FileSearchCall("s1")}

InitCalls == InitHandler(MaxEvents)

KeepGhosts == UNCHANGED <<ghostVars, otherVars>>

CallsStart == turn = 0 /\ Start(<<>>, UserText) /\ UNCHANGED auxVars
CallsPost == Post(TRUE) /\ UNCHANGED auxVars
CallsOpen == Open(TRUE) /\ UNCHANGED auxVars
CallsStepDelta ==
    \E t \in ToolCalls :
        StepDelta(<<t>>) /\ lastCalls' = <<t>> /\ KeepGhosts
CallsToolCallsCompleted == ToolCallsCompleted /\ UNCHANGED auxVars

NextCalls ==
    \/ CallsStart
    \/ CallsPost
    \/ CallsOpen
    \/ CallsStepDelta
    \/ CallsToolCallsCompleted

SpecCalls == InitCalls /\ [][NextCalls]_vars

----------------------------------------------------------------------------
(* Two handler instances, each running one turn, their steps interleaved   *)
(* in any order.  The variables of the handler and of the generator hold   *)
(* the instance in focus, peer holds the other one, and Switch changes the *)
(* focus.                                                                  *)
HandlerFields == DOMAIN Self

\* a variant of FieldObject in which the fields are attributes of the class
FieldObjectOfClass(k, f) == <<0, f>>

(* __init__, lines 98-105: each field of instance k is assigned a new list *)
(* or dict, an object of its own                                           *)
FieldObject(k, f) == <<k, f>>

\* a step of the instance in focus has changed its objects; a field of the
\* peer that refers to the same object shows the change
PeerSees ==
    peer' = [f \in DOMAIN peer |->
                IF /\ f \in HandlerFields
                   /\ FieldObject(3 - focus, f) = FieldObject(focus, f)
                THEN Self'[f] ELSE peer[f]]

TwoCalls ==
    {FunctionCall(0, None, <<"f">>, <<"a">>),
     FunctionCall(0, "c1", <<"f">>, <<"a">>),
     FileSearchCall("s1")}

InstanceStep ==
    /\ PeerSees
    /\ UNCHANGED <<ghostVars, lastCalls, focus, registryVars>>

InitTwo == InitHandler(MaxPerInstance)

TwoStart == turn = 0 /\ Start(<<>>, UserText) /\ InstanceStep
TwoPost == Post(TRUE) /\ InstanceStep
TwoOpen == Open(TRUE) /\ InstanceStep
TwoStepDelta == \E t \in TwoCalls : StepDelta(<<t>>) /\ InstanceStep
TwoMessageDelta == MessageDelta(<<"msg", "m1">>, <<<<"x">>>>) /\ InstanceStep
TwoToolCallsCompleted == ToolCallsCompleted /\ InstanceStep

\* the scheduler goes on with the other instance
Switch ==
    /\ focus' = 3 - focus
    /\ peer' = Instance
    /\ SetHandler(peer)
    /\ pc' = peer.pc
    /\ endedBy' = peer.endedBy
    /\ streamOpen' = peer.streamOpen
    /\ suspended' = peer.suspended
    /\ turn' = peer.turn
    /\ budget' = peer.budget
    /\ pulls' = peer.pulls
    /\ yields' = peer.yields
    /\ postCalls' = peer.postCalls
    /\ openCalls' = peer.openCalls
    /\ history' = peer.history
    /\ lastEvent' = peer.lastEvent
    /\ repeated' = peer.repeated
    /\ UNCHANGED <<ghostVars, lastCalls, registryVars>>

NextTwo ==
    \/ TwoStart
    \/ TwoPost
    \/ TwoOpen
    \/ TwoStepDelta
    \/ TwoMessageDelta
    \/ TwoToolCallsCompleted
    \/ Switch

SpecTwo == InitTwo /\ [][NextTwo]_vars

----------------------------------------------------------------------------
(* The ToolRegistry (tool_registry.py): tools is self._tools, lookup the   *)
(* last title lookup made since the last registration and its result;     *)
(* lastTitle records the title of the latest registration of each kind.    *)
Titles == {<<"searching bing">>, <<"querying fabric">>}
Descriptions == {<<>>, <<"d">>}
FunctionNames == {<<"fetch_weather">>, <<"g">>}

\* a variant of register_tool that keeps the entry of a registered tool
RegisterToolOnce(tool_type, title, description) ==
    /\ tools' = IF tool_type \in DOMAIN tools THEN tools
                ELSE Put(tools, tool_type,
                         [title |-> title, description |-> description])
    /\ lastTitle' = [lastTitle EXCEPT ![tool_type] = title]
    /\ lookup' = NoLookup

(* register_tool, lines 14-22 *)
register_tool(tool_type, title, description) ==
    /\ tools' = Put(tools, tool_type,
                    [title |-> title, description |-> description])
    /\ lastTitle' = [lastTitle EXCEPT ![tool_type] = title]
    /\ lookup' = NoLookup

(* get_tool_title, lines 24-34 *)
get_tool_title(tool_type) ==
    /\ lookup' =
          [kind |-> tool_type,
           title |-> IF tool_type \in DOMAIN tools
                     THEN Get(tools[tool_type], "title",
                              GenericLabel(tool_type))
                     ELSE GenericLabel(tool_type)]
    /\ UNCHANGED <<tools, lastTitle>>

(* ConversationHandler.get_function_title, lines 107-111 *)
LookupFunctionTitle(fn_name) ==
    /\ lookup' = [kind |-> fn_name, title |-> get_function_title(fn_name)]
    /\ UNCHANGED <<tools, lastTitle>>

RegistryStep ==
    UNCHANGED <<handlerVars, driverVars, ghostVars, lastCalls, instanceVars>>

InitRegistry == InitHandler(MaxEvents)

RegistryRegister ==
    \E k \in Kinds, t \in Titles, d \in Descriptions :
        register_tool(k, t, d) /\ RegistryStep
RegistryGetToolTitle == \E k \in Kinds : get_tool_title(k) /\ RegistryStep
RegistryGetFunctionTitle ==
    \E n \in FunctionNames : LookupFunctionTitle(n) /\ RegistryStep

NextRegistry ==
    \/ RegistryRegister
    \/ RegistryGetToolTitle
    \/ RegistryGetFunctionTitle

SpecRegistry == InitRegistry /\ [][NextRegistry]_vars

----------------------------------------------------------------------------
MessagesOf(c_id) ==
    {p \in 1..Len(conversation) : conversation[p].id = <<"tool", c_id>>}

Tokens(s) == {s[k] : k \in 1..Len(s)}

\* the id of the call on index i arrived after one or more id-less fragments
LateId(i) == idSeen[i] /\ idlessFirst[i] >= 1

\* C1 as stated: once the call id has arrived after id-less fragments, the
\* content of the message tool-{call_id} is the exact concatenation of all
\* argument chunks sent on the index, in arrival order.
C1_ContentIsExactConcatenation ==
    \A i \in CallIndexes :
        LateId(i) =>
            \A p \in MessagesOf(CallIdOf[i]) :
                conversation[p].content = sentArgs[i]

\* C1 as amended: once the call id has arrived after id-less fragments, the
\* id-keyed buffer holds the exact concatenation of all argument chunks sent
\* on the index, in arrival order; and if the accumulated name is not blank,
\* there is one message tool-{call_id} and its content is that
\* concatenation with leading and trailing whitespace removed.
C1_ContentIsStrippedConcatenation ==
    \A i \in CallIndexes :
        LateId(i) =>
            /\ CallIdOf[i] \in DOMAIN partial_calls_by_id
            /\ partial_calls_by_id[CallIdOf[i]].args = sentArgs[i]
            /\ i \notin DOMAIN partial_calls_by_index
            /\ Strip(sentName[i]) # <<>> =>
                  /\ Cardinality(MessagesOf(CallIdOf[i])) = 1
                  /\ \A p \in MessagesOf(CallIdOf[i]) :
                        conversation[p].content = Strip(sentArgs[i])

C1_Witness ==
    /\ idlessFirst[0] >= 2
    /\ idSeen[0]
    /\ \E p \in MessagesOf("c1") :
          /\ conversation[p].content = <<"a", "a", "a">>
          /\ sentArgs[0] = <<"a", "a", "a", WS>>

\* C2: the message and the buffers of each of two calls in flight hold
\* only tokens of that call's own fragments, in any interleaving.
OwnTokens(i) == {ArgTokenOf[i], NameTokenOf[i], WS}

\* the words of a title that are not of the function name
LabelWords == {TOOL_ICON, "calling", "fetching weather"}

C2_Isolation ==
    \A i \in CallIndexes :
        /\ \A p \in MessagesOf(CallIdOf[i]) :
              /\ Tokens(conversation[p].content) \subseteq OwnTokens(i)
              /\ Tokens(conversation[p].title) \ LabelWords
                    \subseteq OwnTokens(i)
        /\ CallIdOf[i] \in DOMAIN partial_calls_by_id =>
              Tokens(partial_calls_by_id[CallIdOf[i]].args)
                \cup Tokens(partial_calls_by_id[CallIdOf[i]].name)
                \subseteq OwnTokens(i)
        /\ i \in DOMAIN partial_calls_by_index =>
              Tokens(partial_calls_by_index[i].args)
                \cup Tokens(partial_calls_by_index[i].name)
                \subseteq OwnTokens(i)
        /\ i \in DOMAIN call_id_for_index => call_id_for_index[i] = CallIdOf[i]

\* two events, each with a fragment of c1 and then one of c2: the id-less
\* fragments first, the ids next
C2_Witness ==
    /\ pulls = 2
    /\ idlessFirst[0] = 1 /\ idlessFirst[1] = 1
    /\ \E p \in MessagesOf("c1") : conversation[p].content = <<"a", "a">>
    /\ \E q \in MessagesOf("c2") : conversation[q].content = <<"b", "b">>

----------------------------------------------------------------------------
(* Properties of a turn *)
SeedLen == Len(history) + 1

PendingMessages == {p \in 1..Len(conversation) :
                       conversation[p].status = "pending"}

AccumulatorsEmpty ==
    /\ call_id_for_index = EmptyMap
    /\ partial_calls_by_index = EmptyMap
    /\ partial_calls_by_id = EmptyMap
    /\ in_progress_tools = EmptyMap

CompletionEvents ==
    {"tool_calls_completed", "thread_message_completed", "message_completed"}

EventStep == pulls' = pulls + 1

\* C3: among the messages a turn appends, no two carry the same
\* tool-{call_id} id: each tool call id has exactly one message.
C3_OneMessagePerToolCall ==
    \A p, q \in (SeedLen + 1)..Len(conversation) :
        /\ p # q
        /\ IsToolId(conversation[p].id)
        /\ conversation[p].id # <<"tool", "noid">>
        => conversation[p].id # conversation[q].id

\* C4: immediately after a lifecycle-completion event no message is pending
\* and the four accumulator maps are empty.
C4_CompletionLeavesNothingPending ==
    /\ pc \in {"streaming", "final_yield"}
    /\ lastEvent \in CompletionEvents
    => PendingMessages = {} /\ AccumulatorsEmpty

\* C5: when a turn starts (the generator is at its first yield) the
\* accumulator buffers, the index map and the in-progress set are empty.
C5_TurnStartsClean == pc = "seeded" => AccumulatorsEmpty

\* C6: when the loop has ended by exhaustion of the stream or by a read
\* error, no message is pending and the accumulator state is empty.
C6_StreamEndFinalizes ==
    endedBy \in {"exhausted", "read_error"}
    => PendingMessages = {} /\ AccumulatorsEmpty

\* C7: an event of the turn only extends the content of a pending message
\* and leaves the content of a done message as it is.
C7_ContentAppendOnly ==
    [][turn' = turn =>
        \A p \in 1..Len(conversation) :
            /\ p <= Len(conversation')
            /\ conversation[p].status = "pending"
               => IsPrefix(conversation[p].content, conversation'[p].content)
            /\ conversation[p].status = "done"
               => conversation'[p].content = conversation[p].content]_vars

C7_Witness ==
    \E p \in 1..Len(conversation) :
        /\ conversation[p].status = "pending"
        /\ conversation[p].id = <<"tool", "c1">>
        /\ conversation[p].content = <<"a", WS, "a">>

\* C8: a second "tool calls completed" right after the first changes
\* nothing: contents, message count and statuses stay as they are.
C8_CompletedTwiceIsOnce ==
    [][/\ EventStep
       /\ lastEvent = "tool_calls_completed"
       /\ lastEvent' = "tool_calls_completed"
       => UNCHANGED handlerVars]_vars

C8_Witness ==
    /\ lastEvent = "tool_calls_completed"
    /\ repeated
    /\ \E p \in (SeedLen + 1)..Len(conversation) :
          conversation[p].status = "done"

\* C9: when create_message or create_stream fails, exactly one snapshot
\* has been yielded, each call was made at most once and no event was
\* pulled, and the timeline is the history followed by the user message.
C9_TransportErrorBeforeStream ==
    endedBy \in {"post_error", "open_error"}
    => /\ pc = "aborted"
       /\ yields = 1
       /\ pulls = 0
       /\ postCalls = 1
       /\ openCalls = (IF endedBy = "open_error" THEN 1 ELSE 0)
       /\ Len(conversation) = Len(history) + 1
       /\ \A i \in 1..Len(history) : AsDict(conversation[i]) = history[i]
       /\ conversation[Len(conversation)] = PlainMessage("user", UserText)

C9_Witness ==
    /\ endedBy = "open_error"
    /\ Len(history) > 1
    /\ \E p \in 1..Len(history) :
          Get(Get(history[p], "metadata", <<>>), "status", None) = "pending"

\* C10: a function-call fragment without an index changes neither the
\* timeline nor any accumulator map.
C10_NoIndexFragmentSkipped ==
    [][EventStep /\ lastEvent' = "calls_noindex"
       => UNCHANGED handlerVars]_vars

\* C11: an event of a type that is not consumed changes neither the
\* message list nor any accumulator map, yields no snapshot, and the loop
\* goes on.
C11_UnknownEventIsNoOp ==
    [][EventStep /\ lastEvent' = "other"
       => /\ UNCHANGED handlerVars
          /\ yields' = yields
          /\ pc' = "streaming"
          /\ streamOpen']_vars

C11_Witness ==
    /\ lastEvent = "other"
    /\ pc = "streaming"
    /\ PendingMessages # {}
    /\ in_progress_tools # EmptyMap
    /\ partial_calls_by_id # EmptyMap

\* the message a text delta of message_id goes to: the last assistant
\* message with that id, else the tail if it is an assistant message that
\* is no tool-call message, else none (0)
Resolved(conv, message_id) ==
    LET same == {p \in 1..Len(conv) :
                    conv[p].role = "assistant" /\ conv[p].id = message_id}
    IN  IF same # {} THEN CHOOSE p \in same : \A q \in same : q <= p
        ELSE IF /\ conv # <<>>
                /\ conv[Len(conv)].role = "assistant"
                /\ ~IsToolId(conv[Len(conv)].id)
        THEN Len(conv)
        ELSE 0

\* C12: a text delta is appended to the assistant message with its id, else
\* to the tail if that is an assistant message whose id is not a tool- id,
\* else it becomes a new assistant message; no other message changes.
C12_TextDeltaResolution ==
    [][EventStep /\ lastEvent' = "message_delta"
       => LET p == Resolved(conversation, lastDelta'.id)
              n == Len(conversation)
          IN  /\ \A q \in 1..n : q # p => conversation'[q] = conversation[q]
              /\ p # 0 =>
                    /\ Len(conversation') = n
                    /\ conversation'[p] =
                          [conversation[p] EXCEPT
                              !.content = @ \o lastDelta'.text]
              /\ p = 0 =>
                    /\ Len(conversation') = n + 1
                    /\ conversation'[n + 1] =
                          PlainMessage("assistant", lastDelta'.text)]_vars

\* a delta of m1 went to the history message with that id while the tail
\* was a tool-call message, after an earlier delta had made a new message
C12_Witness ==
    /\ lastEvent = "message_delta"
    /\ lastDelta.id = <<"msg", "m1">>
    /\ Len(conversation) = 4
    /\ conversation[1].id = <<"msg", "m1">>
    /\ conversation[1].content = <<"h", "x">>
    /\ conversation[3].content = <<"y">>
    /\ IsToolId(conversation[4].id)

\* the messages that hold text of the upstream message m
HoldersOf(m) ==
    {p \in 1..Len(conversation) :
        TextTokenOf(m) \in Tokens(conversation[p].content)}

\* C13: all text chunks of one upstream message id are in one single
\* assistant message, whatever other events arrive between them.
C13_OneMessagePerMessageId ==
    \A m \in MessageIds : Cardinality(HoldersOf(m)) <= 1

\* the completion step of lines 405-410 and 415-420: the messages of the
\* calls in progress become done, nothing else of the timeline changes and
\* the four maps are emptied
CompletionStep ==
    /\ AccumulatorsEmpty'
    /\ Len(conversation') = Len(conversation)
    /\ \A p \in 1..Len(conversation) :
          IF \E c \in DOMAIN in_progress_tools : in_progress_tools[c] = p
          THEN conversation'[p] = [conversation[p] EXCEPT !.status = "done"]
          ELSE conversation'[p] = conversation[p]

\* C14 as stated: after a completed assistant thread.message event or a
\* thread.message.completed event no further event of the turn is pulled
\* and the timeline does not change.
C14_EitherCompletionEndsLoop ==
    [][/\ lastEvent \in {"thread_message_completed", "message_completed"}
       /\ turn' = turn
       => pulls' = pulls /\ conversation' = conversation]_vars

\* C14: thread.message.completed runs the completion step, yields one
\* snapshot and ends the loop: no later event of the stream is pulled and
\* the timeline does not change any more in the turn.  A completed
\* assistant thread.message runs the completion step and yields one
\* snapshot, and the loop goes on.
C14_OnlyMessageCompletedEndsLoop ==
    [][/\ EventStep /\ lastEvent' = "message_completed"
          => CompletionStep /\ yields' = yields + 1 /\ pc' = "final_yield"
       /\ lastEvent = "message_completed" /\ turn' = turn
          => /\ UNCHANGED <<handlerVars, pulls, yields>>
             /\ pc' \in {"finalized", "cancelled"}
       /\ EventStep /\ lastEvent' = "thread_message_completed"
          => CompletionStep /\ yields' = yields + 1 /\ pc' = "streaming"]_vars

\* the loop was left at thread.message.completed with events still to come
C14_Witness ==
    /\ pc = "finalized"
    /\ endedBy = "terminal"
    /\ lastEvent = "message_completed"
    /\ budget > 0
    /\ \E p \in (SeedLen + 1)..Len(conversation) :
          conversation[p].status = "done"

\* C15 as stated: every message_creation in_progress event appends one
\* empty assistant message at the tail and yields a snapshot.
C15_EveryCreationAppends ==
    [][/\ EventStep
       /\ lastEvent' \in {"message_creation_in_progress",
                          "message_creation_in_progress_noid"}
       => /\ conversation' =
                Append(conversation, PlainMessage("assistant", <<>>))
          /\ yields' = yields + 1]_vars

\* C15: a message_creation in_progress event whose step details carry a
\* message id appends one empty assistant message at the tail and yields a
\* snapshot; one without a message id appends nothing and yields a
\* snapshot; a message_creation completed event yields a snapshot and
\* changes nothing.
C15_CreationWithIdAppends ==
    [][/\ EventStep /\ lastEvent' = "message_creation_in_progress"
          => /\ conversation' =
                   Append(conversation, PlainMessage("assistant", <<>>))
             /\ UNCHANGED <<call_id_for_index, partial_calls_by_index,
                            partial_calls_by_id, in_progress_tools>>
             /\ yields' = yields + 1
       /\ EventStep /\ lastEvent' \in {"message_creation_in_progress_noid",
                                       "message_creation_completed"}
          => UNCHANGED handlerVars /\ yields' = yields + 1]_vars

\* a second empty assistant message was appended behind the first one
C15_Witness ==
    /\ lastEvent = "message_creation_in_progress"
    /\ repeated
    /\ Len(conversation) = SeedLen + 2
    /\ conversation[Len(conversation)] = PlainMessage("assistant", <<>>)
    /\ conversation[Len(conversation) - 1] = PlainMessage("assistant", <<>>)

\* C16: create_message is called only from the generator suspended at the
\* seed snapshot, the first and only one yielded so far, and create_stream
\* only after that: no external call precedes the first snapshot or the
\* caller's request for the next value.
C16_SeedSnapshotBeforeExternalCalls ==
    [][/\ postCalls' > postCalls
          => /\ pc = "seeded" /\ suspended
             /\ yields = 1 /\ pulls = 0
             /\ postCalls = 0 /\ openCalls = 0
       /\ openCalls' > openCalls
          => /\ pc = "posted"
             /\ yields = 1 /\ pulls = 0
             /\ postCalls = 1 /\ openCalls = 0]_vars

\* the second turn has yielded its seed snapshot, history included, and
\* has then posted the user message
C16_Witness ==
    /\ pc = "posted"
    /\ turn = 2
    /\ yields = 1
    /\ postCalls = 1
    /\ openCalls = 0
    /\ Len(conversation) > 1

\* C17: when the history of a turn is the prior snapshot, the seeded
\* timeline is that snapshot, message by message with the same role,
\* content, title, status and id, followed by one new user message.
C17_HistoryRoundTrip ==
    [][pc' = "seeded" /\ history' = AsDicts(conversation)
       => /\ Len(conversation') = Len(conversation) + 1
          /\ \A p \in 1..Len(conversation) :
                /\ conversation'[p].role = conversation[p].role
                /\ conversation'[p].content = conversation[p].content
                /\ conversation'[p].title = conversation[p].title
                /\ conversation'[p].status = conversation[p].status
                /\ conversation'[p].id = conversation[p].id
          /\ conversation'[Len(conversation')] =
                PlainMessage("user", UserText)]_vars

\* the second turn was seeded from a snapshot that holds a message without
\* metadata and a tool-call message with title, status and id
C17_Witness ==
    /\ pc = "seeded"
    /\ turn = 2
    /\ Len(conversation) = Len(history) + 1
    /\ \E p \in 1..Len(history) : "metadata" \notin DOMAIN history[p]
    /\ \E p \in 1..Len(history) :
          /\ "metadata" \in DOMAIN history[p]
          /\ DOMAIN history[p].metadata = {"title", "status", "id"}
          /\ conversation[p].title = history[p].metadata.title
          /\ conversation[p].status = "pending"
          /\ IsToolId(conversation[p].id)

\* the order of the positions of a turn: Seeding, Posting, Streaming (the
\* loop and its last yield), then the end of the generator
Rank(p) ==
    CASE p = "idle" -> 0
      [] p = "seeded" -> 1
      [] p = "posted" -> 2
      [] p = "streaming" -> 3
      [] p = "final_yield" -> 4
      [] OTHER -> 5

Ended == pc \in {"finalized", "aborted", "cancelled"}

\* C18: within a turn the position only moves forward; create_message is
\* called at most once, create_stream at most once and only after the post
\* succeeded; after the end of the turn nothing is called, pulled, yielded
\* or changed.
C18_ForwardOnly ==
    [][turn' = turn
       => /\ Rank(pc') >= Rank(pc)
          /\ postCalls' <= 1
          /\ openCalls' <= 1
          /\ openCalls' # openCalls => pc = "posted" /\ postCalls = 1
          /\ Ended => UNCHANGED <<handlerVars, pc, pulls, yields, postCalls,
                                  openCalls>>]_vars

\* a turn went through every position: posted once, opened once, pulled
\* events, and ended with events left in the stream
C18_Witness ==
    /\ pc \in {"finalized", "aborted"}
    /\ endedBy \in {"terminal", "read_error"}
    /\ postCalls = 1
    /\ openCalls = 1
    /\ pulls >= 2
    /\ budget > 0

\* C19: the stream is open only while the generator is inside the with
\* block; however the turn ends (return after the loop, break, an error, the
\* caller closing the generator), the stream is closed.
C19_StreamClosedOnExit ==
    /\ streamOpen => pc \in {"streaming", "final_yield"}
    /\ pc \in {"streaming", "final_yield"} => streamOpen
    /\ openCalls = 0 => ~streamOpen

\* a turn whose stream was opened and read ended by an error or by the
\* caller closing the generator, and the stream is closed
C19_Witness ==
    /\ endedBy \in {"read_error", "cancelled"}
    /\ openCalls = 1
    /\ pulls >= 1
    /\ ~streamOpen

\* the events that take no branch or a branch without a yield
IgnoredEvents == {"other", "thread_message_other"}

\* C20 as stated: every pull of the loop is followed by a yield before the
\* next pull, so that between two consecutive yields exactly one event is
\* pulled.
C20_EveryPullYields ==
    [][EventStep => yields' = yields + 1]_vars

\* C20: in the loop every snapshot is yielded for exactly one pulled event
\* and an event gives at most one snapshot: exactly one if the event is
\* consumed, none if it is ignored, in which case the next event is pulled
\* at once.  A step pulls at most one event, and after a yield the
\* generator is suspended until the caller asks for the next value.
C20_OneSnapshotPerConsumedEvent ==
    [][turn' = turn
       => /\ pulls' \in {pulls, pulls + 1}
          /\ yields' \in {yields, yields + 1}
          /\ yields' = yields + 1 => EventStep /\ suspended'
          /\ EventStep => (yields' = yields <=> lastEvent' \in IgnoredEvents)
          /\ EventStep /\ yields' = yields => ~suspended']_vars

\* three events were pulled and one of them, an ignored one, gave no
\* snapshot
C20_Witness ==
    /\ pc = "streaming"
    /\ pulls = 3
    /\ yields = 3
    /\ lastEvent \notin IgnoredEvents
    /\ suspended

\* the event just processed carried the one function-call fragment t
FragmentStep(t) ==
    /\ EventStep
    /\ lastEvent' \in {"calls", "calls_noindex"}
    /\ lastCalls' = <<t>>
    /\ t.type = "function"

\* C21 as stated: a fragment on an index that is bound to a call id leaves
\* the binding as it is, whatever id the fragment carries.
C21_IndexBindingWriteOnce ==
    [][\A t \in ToolCalls :
          FragmentStep(t) /\ t.index \in DOMAIN call_id_for_index
          => call_id_for_index'[t.index] = call_id_for_index[t.index]]_vars

\* C21: a fragment that carries a call id binds its index to that id, also
\* when the index is bound to another id (the latest id wins); a fragment
\* without a call id leaves every binding as it is; no fragment changes the
\* binding of another index.
C21_IndexBindingLatestWins ==
    [][\A t \in ToolCalls :
          FragmentStep(t)
          => /\ t.id # None
                => /\ t.index \in DOMAIN call_id_for_index'
                   /\ call_id_for_index'[t.index] = t.id
             /\ t.id = None => call_id_for_index' = call_id_for_index
             /\ \A i \in DOMAIN call_id_for_index \ {t.index} :
                   /\ i \in DOMAIN call_id_for_index'
                   /\ call_id_for_index'[i] = call_id_for_index[i]
             /\ DOMAIN call_id_for_index'
                   \subseteq DOMAIN call_id_for_index \cup {t.index}]_vars

\* index 0 was bound to c1 and is now bound to c2
C21_Witness ==
    /\ lastEvent = "calls"
    /\ 0 \in DOMAIN call_id_for_index
    /\ call_id_for_index[0] = "c2"
    /\ lastCalls = <<FunctionCall(0, "c2", <<"f">>, <<"a">>)>>
    /\ "c1" \in DOMAIN partial_calls_by_id
    /\ 1 \notin DOMAIN call_id_for_index

\* the call ids of the tool calls of the stream
CallIds == {t.id : t \in ToolCalls} \ {None}

\* C22 as stated: every tool-call message of the turn has the id tool-
\* followed by the call id of a tool call.
C22_ToolMessageHasCallId ==
    \A p \in (SeedLen + 1)..Len(conversation) :
        /\ IsToolId(conversation[p].id)
        /\ conversation[p].id[2] \in CallIds

\* C22: a tool-call event that adds a message adds one message, whose id
\* is tool- followed by the call id: the id the call carries for
\* bing_grounding and file_search, the id bound to the index for a function
\* fragment.  A bing_grounding or file_search call that carries no call id
\* gets the fixed id tool-noid.
C22_ToolMessageId ==
    [][\A t \in ToolCalls :
          /\ EventStep
          /\ lastEvent' \in {"calls", "calls_noindex"}
          /\ lastCalls' = <<t>>
          /\ conversation' # conversation
          /\ Len(conversation') # Len(conversation)
          => /\ Len(conversation') = Len(conversation) + 1
             /\ conversation'[Len(conversation')].id =
                   IF t.type = "function"
                   THEN <<"tool", call_id_for_index'[t.index]>>
                   ELSE IF t.id # None THEN <<"tool", t.id>>
                   ELSE <<"tool", "noid">>]_vars

\* a file_search call without an id got the message tool-noid, behind the
\* message of the function call c1
C22_Witness ==
    /\ lastCalls = <<FileSearchCall(None)>>
    /\ Len(conversation) = SeedLen + 2
    /\ conversation[SeedLen + 1].id = <<"tool", "c1">>
    /\ conversation[SeedLen + 2].id = <<"tool", "noid">>
    /\ conversation[SeedLen + 2].status = "pending"

\* C23: a step of one handler instance changes no field and no message of
\* the other instance, and does not move the other's generator: the other
\* instance is as if it ran alone.
C23_InstancesIndependent ==
    [][focus' = focus => peer' = peer]_vars

\* the two instances are in the middle of their streams, the one in focus
\* buffering fragments under an index, the other holding messages and
\* buffers of its own
C23_Witness ==
    /\ pc = "streaming"
    /\ peer.pc = "streaming"
    /\ pulls >= 1
    /\ peer.pulls >= 2
    /\ partial_calls_by_index # EmptyMap
    /\ peer.partial_calls_by_id # EmptyMap
    /\ peer.in_progress_tools # EmptyMap
    /\ Len(peer.conversation) > Len(conversation)

\* the event just processed carried the one bing_grounding call t
BingStep(t) ==
    /\ EventStep
    /\ lastEvent' = "calls"
    /\ lastCalls' = <<t>>
    /\ t.type = "bing_grounding"

\* the step appended one pending bing message with this content and
\* changed no other message and no buffer
BingMessageAdded(t, content) ==
    /\ conversation' =
          Append(conversation,
                 MyChatMessage("assistant", content, <<"searching bing">>,
                               "pending",
                               IF t.id # None THEN <<"tool", t.id>>
                               ELSE <<"tool", "noid">>))
    /\ UNCHANGED <<call_id_for_index, partial_calls_by_index,
                   partial_calls_by_id>>
    /\ t.id # None =>
          /\ t.id \in DOMAIN in_progress_tools'
          /\ in_progress_tools'[t.id] = Len(conversation')

\* C24 as stated: a bing_grounding call whose request descriptor is not
\* blank adds a pending message; one whose descriptor is empty or blank
\* changes nothing.
C24_NonBlankDescriptorGivesMessage ==
    [][\A t \in ToolCalls :
          BingStep(t)
          => IF Strip(t.requesturl) # <<>>
             THEN /\ Len(conversation') = Len(conversation) + 1
                  /\ conversation'[Len(conversation')].status = "pending"
             ELSE UNCHANGED handlerVars]_vars

\* C24: a bing_grounding call adds, in the same step, one pending message
\* if its request descriptor is not blank and the query taken from it is
\* not blank: the content is the text between the quotes of the q="..."
\* field (q="paris weather" gives paris weather), or the whole descriptor
\* if it has no such field.  A call whose descriptor is empty or blank, or
\* whose q="..." field holds only whitespace, changes no state.
C24_BingQueryMessage ==
    [][\A t \in ToolCalls :
          BingStep(t)
          => IF t.requesturl = BingUrl
             THEN BingMessageAdded(t, <<"paris", WS, "weather">>)
             ELSE IF t.requesturl = <<"u">>
             THEN BingMessageAdded(t, <<"u">>)
             ELSE UNCHANGED handlerVars]_vars

\* the call b1 with q="paris weather" got its message
C24_Witness ==
    /\ lastCalls = <<BingCall("b1", BingUrl)>>
    /\ lastEvent = "calls"
    /\ conversation[Len(conversation)].content = <<"paris", WS, "weather">>
    /\ conversation[Len(conversation)].status = "pending"
    /\ in_progress_tools["b1"] = Len(conversation)

\* a title lookup was made in this step
LookupStep == lookup' # lookup /\ lookup' # NoLookup

\* C25 as stated: the lookup of a kind that was never registered returns
\* the label calling {kind}.
C25_FallbackIsCallingKind ==
    [][/\ LookupStep
       /\ lookup'.kind \in Kinds
       /\ lastTitle[lookup'.kind] = NoText
       => lookup'.title = <<"calling">> \o lookup'.kind]_vars

\* C25: the title lookup of a kind returns the title of its most recent
\* registration and, for a kind that was never registered, the generic
\* label made of the tool icon, the word calling and the kind; the handler's
\* lookup of a function name without a title returns the same generic
\* label.  A lookup changes neither the registry nor the handler.
C25_LookupLatestOrGeneric ==
    [][LookupStep
       => /\ UNCHANGED <<tools, lastTitle, handlerVars>>
          /\ lookup'.kind \in Kinds =>
                lookup'.title =
                   IF lastTitle[lookup'.kind] # NoText
                   THEN lastTitle[lookup'.kind]
                   ELSE <<TOOL_ICON, "calling">> \o lookup'.kind
          /\ lookup'.kind = <<"g">> =>
                lookup'.title = <<TOOL_ICON, "calling", "g">>
          /\ lookup'.kind = <<"fetch_weather">> =>
                lookup'.title = <<"fetching weather">>]_vars

\* bing_grounding was registered twice, with two titles, and the lookup
\* returned the second one; fabric_data was never registered
C25_Witness ==
    /\ lookup.kind = <<"bing_grounding">>
    /\ lookup.title = <<"querying fabric">>
    /\ tools[<<"bing_grounding">>].description = <<"d">>
    /\ <<"fabric_data">> \notin DOMAIN tools
    /\ <<"azure_ai_search">> \in DOMAIN tools
    /\ tools[<<"azure_ai_search">>].title = <<"searching bing">>

\* the call ids whose id-keyed buffer the step has created or changed
BufferChanged ==
    {c \in DOMAIN partial_calls_by_id' :
        \/ c \notin DOMAIN partial_calls_by_id
        \/ partial_calls_by_id'[c] # partial_calls_by_id[c]}

\* C26: after a function-call fragment of a call with a bound id and a
\* name that is not blank, the timeline of the current turn holds the
\* message tool-{id}; its content is the arguments buffer of the id and its
\* title the label of the accumulated name (both without the surrounding
\* whitespace).
C26_MessageShowsBuffer ==
    [][EventStep /\ lastEvent' = "calls"
       => \A c \in BufferChanged :
             Strip(partial_calls_by_id'[c].name) # <<>>
             => \E p \in (SeedLen + 1)..Len(conversation') :
                   /\ conversation'[p].id = <<"tool", c>>
                   /\ conversation'[p].content =
                         Strip(partial_calls_by_id'[c].args)
                   /\ conversation'[p].title =
                         get_function_title(
                             Strip(partial_calls_by_id'[c].name))]_vars

\* the buffer of key k in the map d, empty if there is none
BufferOf(d, k) == IF k \in DOMAIN d THEN d[k] ELSE EmptyStorage

\* C27: a function-call fragment whose index has no bound call id only
\* extends the buffer of its index, and one whose call has a bound id and
\* an accumulated name that is still empty only extends the buffer of the
\* id (by the chunks buffered under the index and its own); in both cases
\* no message is added or changed and no chunk is lost.
C27_SilentAccumulation ==
    [][\A t \in ToolCalls :
          FragmentStep(t)
          => LET i == t.index
                 byIndex == BufferOf(partial_calls_by_index, i)
             IN  /\ i \notin DOMAIN call_id_for_index'
                    => /\ conversation' = conversation
                       /\ UNCHANGED <<partial_calls_by_id, in_progress_tools>>
                       /\ partial_calls_by_index' =
                             Put(partial_calls_by_index, i,
                                 [name |-> byIndex.name \o t.name,
                                  args |-> byIndex.args \o t.args])
                 /\ /\ i \in DOMAIN call_id_for_index'
                    /\ partial_calls_by_id'[call_id_for_index'[i]].name = <<>>
                    => LET c == call_id_for_index'[i]
                           byId == BufferOf(partial_calls_by_id, c)
                       IN  /\ conversation' = conversation
                           /\ in_progress_tools' = in_progress_tools
                           /\ partial_calls_by_id' =
                                 Put(partial_calls_by_id, c,
                                     [name |-> <<>>,
                                      args |-> byId.args \o byIndex.args
                                                  \o t.args])
                           /\ partial_calls_by_index' =
                                 Drop(partial_calls_by_index, i)]_vars

\* two nameless fragments of the call on index 0, the second with the id
\* c1: the id-keyed buffer holds both chunks and there is no message
C27_Witness ==
    /\ lastCalls = <<FunctionCall(0, "c1", <<>>, <<"a">>)>>
    /\ lastEvent = "calls"
    /\ partial_calls_by_id["c1"] = [name |-> <<>>, args |-> <<"a", "a">>]
    /\ 0 \notin DOMAIN partial_calls_by_index
    /\ Len(conversation) = SeedLen
    /\ in_progress_tools = EmptyMap

\* the messages that hold text of both upstream messages
Mixed(conv) ==
    {p \in 1..Len(conv) : {"x", "y"} \subseteq Tokens(conv[p].content)}

\* C28 as stated: no message holds text of two upstream message ids.
C28_NoMessageMixesIds == Mixed(conversation) = {}

\* C28: a text delta joins text of another upstream message id only in the
\* message that is the tail of the timeline when the delta arrives; text
\* of two ids is kept apart when something separates them: after a message
\* creation started event that carries a message id, the delta mixes
\* nothing.
C28_MixOnlyAtTail ==
    [][EventStep /\ lastEvent' = "message_delta"
       => /\ Mixed(conversation') \ Mixed(conversation)
                \subseteq {Len(conversation)}
          /\ lastEvent = "message_creation_in_progress"
                => Mixed(conversation') = Mixed(conversation)]_vars

\* the text of m1 and the text of m2, separated by a message creation
\* started event, are in two messages
C28_Witness ==
    /\ lastEvent = "message_delta"
    /\ Len(conversation) = SeedLen + 2
    /\ conversation[SeedLen + 1].content = <<"x">>
    /\ conversation[SeedLen + 2].content = <<"y">>
    /\ Mixed(conversation) = {}

\* C29: within a turn no step removes, replaces or reorders a message: the
\* list never gets shorter and every position keeps its message (its role
\* and its id), whatever happens to content, title and status.
C29_TimelineAppendOnly ==
    [][turn' = turn
       => /\ Len(conversation') >= Len(conversation)
          /\ \A p \in 1..Len(conversation) :
                /\ conversation'[p].role = conversation[p].role
                /\ conversation'[p].id = conversation[p].id]_vars

\* after three events the two tool-call messages of the turn are where
\* they were appended, done
C29_Witness ==
    /\ pc = "streaming"
    /\ pulls = 3
    /\ lastEvent \in CompletionEvents
    /\ Len(conversation) = SeedLen + 2
    /\ conversation[SeedLen + 1].id = <<"tool", "c1">>
    /\ conversation[SeedLen + 1].status = "done"
    /\ conversation[SeedLen + 2].id = <<"tool", "s1">>
    /\ conversation[SeedLen + 2].status = "done"

====
